---- MODULE Spec2Model ----
(***************************************************************************)
(* The Pomodoro timer of src/src/extension.ts: the PomodoroTimer class     *)
(* (countdown state, the 100 ms interval that drives tick(), the webview   *)
(* panel's message protocol, the settings it reads from the configuration  *)
(* store) as a state machine.  One action per command, message or          *)
(* callback; a handler runs to completion, as on the host's event loop.    *)
(***************************************************************************)
EXTENDS Integers, Sequences, FiniteSets, TLC

(* ------------------------------------------------------------------ *)
(* Bounds of the model                                                  *)
(* ------------------------------------------------------------------ *)

\* The wall clock is read at whole minutes 0..MaxMinutes past the start
\* of the run, plus an offset of at most MaxOffsetSteps clock quanta.
MaxMinutes == 3
MaxOffsetSteps == 4
\* sessionsBeforeLongBreak a user sets is 1..MaxCycle.
MaxCycle == 2
\* No further work session is started after MaxSessions completed ones.
MaxSessions == 2
\* Interval handles the host hands out at one time.
MaxHandles == 2
MaxPrompts == 2
MaxOverrun == 2

(* ------------------------------------------------------------------ *)
(* Program constants                                                    *)
(* ------------------------------------------------------------------ *)

SecondsPerMinute == 60
MsPerSecond == 1000
DefaultWorkDuration == 25
DefaultBreakDuration == 5
DefaultLongBreakDuration == 15
DefaultSessionsBeforeLongBreak == 4
\* The least value the panel's sliders give a duration or the cycle.
SliderMin == 1
MsPerMinute == SecondsPerMinute * MsPerSecond
\* Granularity of the modelled clock readings (ms): half a second, so
\* that callbacks arrive both within and across whole seconds.
ClockQuantum == MsPerSecond \div 2

NoTimer == 0

VARIABLES
    timeLeft,           \* this.timeLeft (seconds)
    isRunning,          \* this.isRunning
    isWorkSession,      \* this.isWorkSession
    sessionsCompleted,  \* this.sessionsCompleted
    timer,              \* this.timer: an interval handle, or NoTimer (null)
    lastUpdateTime,     \* this.lastUpdateTime (ms)
    panel,              \* this.panel: "null", or the panel "visible" / "hidden"
    intervals,          \* host: handles of the intervals setInterval keeps alive
    now,                \* host: Date.now() (ms)
    config,             \* host: the pomodoroTimer configuration section
    deactivated,        \* host: deactivate() has been called
    out,                \* what the last handler rendered, posted, showed or played
    t0,                 \* history: Date.now() at the start() of the current run
    R0,                 \* history: timeLeft right after that start()
    cycleAtExpiry,      \* history: sessionsBeforeLongBreak when the work session
                        \* before the current break expired, 0 outside a break
    clickTimer,         \* click-driven timer: timer, a handle or NoTimer (undefined)
    secondsLeft,        \* click-driven timer: secondsLeft
    isWorking,          \* click-driven timer: isWorking
    pomodoroCount,      \* click-driven timer: pomodoroCount
    clickIntervals,     \* host: handles of the intervals startTimer() has set
    prompts             \* host: completion prompts shown and not yet answered

\* The globals of the click-driven timer and the host objects it uses.
clickVars == <<clickTimer, secondsLeft, isWorking, pomodoroCount,
               clickIntervals, prompts>>

\* The fields of the PomodoroTimer object and the host objects it uses.
timerVars == <<timeLeft, isRunning, isWorkSession, sessionsCompleted, timer,
               lastUpdateTime, panel, intervals, now, config, t0, R0, cycleAtExpiry>>

vars == <<timerVars, clickVars, deactivated, out>>

(* ------------------------------------------------------------------ *)
(* The configuration store                                              *)
(* ------------------------------------------------------------------ *)

NumberKeys == {"workDuration", "breakDuration", "longBreakDuration",
               "sessionsBeforeLongBreak"}
ToggleKeys == {"soundEnabled", "notificationEnabled"}
ConfigKeys == NumberKeys \cup ToggleKeys

\* A key holds <<v>> when the user has set it and <<>> when it is absent.
Unset == << >>

\* config.get(key, defaultValue)
Get(cfg, key, defaultValue) ==
    IF cfg[key] = Unset THEN defaultValue ELSE cfg[key][1]

\* JavaScript's a % b === 0 for integers, a >= 0: NaN (never === 0) when
\* b is 0, otherwise the remainder carries the sign of a.
RemainderIsZero(a, b) ==
    /\ b # 0
    /\ a % (IF b < 0 THEN -b ELSE b) = 0

(* ------------------------------------------------------------------ *)
(* The timer object together with the host objects its methods touch   *)
(* ------------------------------------------------------------------ *)

Self ==
    [timeLeft |-> timeLeft, isRunning |-> isRunning,
     isWorkSession |-> isWorkSession,
     sessionsCompleted |-> sessionsCompleted, timer |-> timer,
     lastUpdateTime |-> lastUpdateTime, panel |-> panel,
     intervals |-> intervals, out |-> << >>]

Commit(w) ==
    /\ timeLeft' = w.timeLeft
    /\ isRunning' = w.isRunning
    /\ isWorkSession' = w.isWorkSession
    /\ sessionsCompleted' = w.sessionsCompleted
    /\ timer' = w.timer
    /\ lastUpdateTime' = w.lastUpdateTime
    /\ panel' = w.panel
    /\ intervals' = w.intervals
    /\ out' = w.out
    /\ UNCHANGED clickVars

Emit(w, e) == [w EXCEPT !.out = Append(@, e)]

\* setInterval: the host hands out a handle no live interval has.
FreshHandle(live) == CHOOSE h \in 1..MaxHandles : h \notin live

\* clearInterval(handle)
ClearInterval(live, handle) == live \ {handle}

\* A text is the sequence of its characters; a word of the label and a
\* glyph (written by its name) stand as one element.
DigitChars == <<"0", "1", "2", "3", "4", "5", "6", "7", "8", "9">>

RECURSIVE ToDecimal(_)
ToDecimal(n) ==
    IF n < Len(DigitChars) THEN <<DigitChars[n + 1]>>
    ELSE ToDecimal(n \div Len(DigitChars))
             \o <<DigitChars[(n % Len(DigitChars)) + 1]>>

\* String(n), of an integer n
NumberToString(n) ==
    IF n < 0 THEN <<"-">> \o ToDecimal(-n) ELSE ToDecimal(n)

\* a % b of JavaScript for b > 0: the sign is the dividend's.
Remainder(a, b) == IF a >= 0 THEN a % b ELSE -((-a) % b)

\* A padStart() that leaves the text as it is.
padStartNone(text, targetLength, padString) == text

\* text.padStart(targetLength, padString), padString of one character
RECURSIVE padStart(_, _, _)
padStart(text, targetLength, padString) ==
    IF Len(text) >= targetLength THEN text
    ELSE padStart(<<padString>> \o text, targetLength, padString)

\* The status bar item's text.
StatusText(w) ==
    LET minutes == w.timeLeft \div SecondsPerMinute
        seconds == Remainder(w.timeLeft, SecondsPerMinute)
        timeStr == padStart(NumberToString(minutes), 2, "0") \o <<":">>
                       \o padStart(NumberToString(seconds), 2, "0")
        icon == IF w.isWorkSession THEN "tomato" ELSE "hot beverage"
        status == IF w.isRunning THEN "black circle" ELSE "white circle"
        sessionType == IF w.isWorkSession THEN "Work" ELSE "Break"
    IN  <<icon, " ", sessionType, " ">> \o timeStr \o <<" ", status>>

\* The object as the call finds it: the argument's value, taken once.
Value(w) == {w}

updateStatusBar(w) ==
    LET Render(this) ==
            Emit(this, [ev |-> "statusBar", text |-> StatusText(this),
                        timeLeft |-> this.timeLeft,
                        isRunning |-> this.isRunning,
                        isWorkSession |-> this.isWorkSession,
                        sessionsCompleted |-> this.sessionsCompleted])
    IN  CHOOSE rendered \in {Render(this) : this \in Value(w)} : TRUE

broadcastUpdate(w, cfg) ==
    LET Post(this) ==
            IF this.panel = "visible"
            THEN Emit(this, [ev |-> "update", timeLeft |-> this.timeLeft,
                          isRunning |-> this.isRunning,
                          isWorkSession |-> this.isWorkSession,
                          sessionsCompleted |-> this.sessionsCompleted,
                          workDuration |-> Get(cfg, "workDuration", DefaultWorkDuration),
                          breakDuration |-> Get(cfg, "breakDuration", DefaultBreakDuration),
                          longBreakDuration |->
                              Get(cfg, "longBreakDuration", DefaultLongBreakDuration),
                          sessionsBeforeLongBreak |->
                              Get(cfg, "sessionsBeforeLongBreak",
                                  DefaultSessionsBeforeLongBreak),
                          soundEnabled |-> Get(cfg, "soundEnabled", TRUE),
                          notificationEnabled |-> Get(cfg, "notificationEnabled", TRUE)])
            ELSE this
    IN  CHOOSE posted \in {Post(this) : this \in Value(w)} : TRUE

\* The length start() gives a phase that begins from timeLeft = 0.
\* isLongBreak with the cycle counted one session early.
isLongBreakOffByOne(w, cfg) ==
    /\ ~w.isWorkSession
    /\ w.sessionsCompleted > 0
    /\ RemainderIsZero(w.sessionsCompleted + 1,
                       Get(cfg, "sessionsBeforeLongBreak",
                           DefaultSessionsBeforeLongBreak))

\* A decision taken with the cycle length in force when the work session
\* expired.
isLongBreakAsAtExpiry(w, cfg) ==
    /\ ~w.isWorkSession
    /\ w.sessionsCompleted > 0
    /\ RemainderIsZero(w.sessionsCompleted,
                       IF cycleAtExpiry # 0 THEN cycleAtExpiry
                       ELSE Get(cfg, "sessionsBeforeLongBreak",
                                DefaultSessionsBeforeLongBreak))

isLongBreak(w, cfg) ==
    /\ ~w.isWorkSession
    /\ w.sessionsCompleted > 0
    /\ RemainderIsZero(w.sessionsCompleted,
                       Get(cfg, "sessionsBeforeLongBreak",
                           DefaultSessionsBeforeLongBreak))

IntervalLength(w, cfg) ==
    IF w.isWorkSession
    THEN Get(cfg, "workDuration", DefaultWorkDuration) * SecondsPerMinute
    ELSE IF isLongBreak(w, cfg)
         THEN Get(cfg, "longBreakDuration", DefaultLongBreakDuration)
                  * SecondsPerMinute
         ELSE Get(cfg, "breakDuration", DefaultBreakDuration) * SecondsPerMinute

\* start() without its first line, the return when already running.
startUnguarded(w, cfg, t) ==
    LET w1 == IF w.timeLeft = 0
              THEN [w EXCEPT !.timeLeft = IntervalLength(w, cfg)]
              ELSE w
        h  == FreshHandle(w1.intervals)
        w2 == [w1 EXCEPT !.isRunning = TRUE,
                         !.lastUpdateTime = t,
                         !.timer = h,
                         !.intervals = @ \cup {h}]
    IN  broadcastUpdate(updateStatusBar(w2), cfg)

\* start() computing the length anew whatever timeLeft holds.
startRecomputes(w, cfg, t) ==
    IF w.isRunning THEN w
    ELSE LET w1 == [w EXCEPT !.timeLeft = IntervalLength(w, cfg)]
             h  == FreshHandle(w1.intervals)
             w2 == [w1 EXCEPT !.isRunning = TRUE,
                              !.lastUpdateTime = t,
                              !.timer = h,
                              !.intervals = @ \cup {h}]
         IN  broadcastUpdate(updateStatusBar(w2), cfg)

start(w, cfg, t) ==
    IF w.isRunning THEN w
    ELSE LET w1 == IF w.timeLeft = 0
                   THEN [w EXCEPT !.timeLeft = IntervalLength(w, cfg)]
                   ELSE w
             h  == FreshHandle(w1.intervals)
             w2 == [w1 EXCEPT !.isRunning = TRUE,
                              !.lastUpdateTime = t,
                              !.timer = h,
                              !.intervals = @ \cup {h}]
         IN  broadcastUpdate(updateStatusBar(w2), cfg)

\* A stop() that also gives up the remainder of the countdown.
stopClearsTime(w, cfg) ==
    LET w1 == [w EXCEPT !.intervals =
                            IF w.timer # NoTimer
                            THEN ClearInterval(@, w.timer) ELSE @,
                        !.timer = NoTimer,
                        !.isRunning = FALSE,
                        !.timeLeft = 0]
    IN  broadcastUpdate(updateStatusBar(w1), cfg)

stop(w, cfg) ==
    LET w1 == [w EXCEPT !.intervals =
                            IF w.timer # NoTimer
                            THEN ClearInterval(@, w.timer) ELSE @,
                        !.timer = NoTimer,
                        !.isRunning = FALSE]
    IN  broadcastUpdate(updateStatusBar(w1), cfg)

\* reset() that forgets to clear the session count.
resetKeepsCount(w, cfg) ==
    LET w1 == stop(w, cfg)
        w2 == [w1 EXCEPT !.timeLeft = 0,
                         !.isWorkSession = TRUE]
    IN  broadcastUpdate(updateStatusBar(w2), cfg)

\* A reset() that clears the count and leaves the phase.
resetKeepsPhase(w, cfg) ==
    LET w1 == stop(w, cfg)
        w2 == [w1 EXCEPT !.timeLeft = 0,
                         !.sessionsCompleted = 0]
    IN  broadcastUpdate(updateStatusBar(w2), cfg)

reset(w, cfg) ==
    LET w1 == stop(w, cfg)
        w2 == [w1 EXCEPT !.timeLeft = 0,
                         !.isWorkSession = TRUE,
                         !.sessionsCompleted = 0]
    IN  broadcastUpdate(updateStatusBar(w2), cfg)

toggleTimer(w, cfg, t) ==
    IF w.isRunning THEN stop(w, cfg) ELSE start(w, cfg, t)

\* beep(): building the audio graph may throw (no AudioContext in the
\* host); the catch logs and returns normally.
beep(w, audioOk) ==
    IF audioOk THEN Emit(w, [ev |-> "beep"])
    ELSE Emit(w, [ev |-> "log", message |-> "Audio context not available"])

\* playNotification() showing the message whatever notificationEnabled says.
playNotificationAlways(w, message, cfg, audioOk) ==
    LET w1 == IF Get(cfg, "soundEnabled", TRUE) THEN beep(w, audioOk) ELSE w
    IN  Emit(w1, [ev |-> "info", message |-> message])

playNotification(w, message, cfg, audioOk) ==
    LET w1 == IF Get(cfg, "soundEnabled", TRUE) THEN beep(w, audioOk) ELSE w
    IN  IF Get(cfg, "notificationEnabled", TRUE)
        THEN Emit(w1, [ev |-> "info", message |-> message])
        ELSE w1

\* onTimerEnd() without its call of stop(): the next phase is entered with
\* the interval still alive.
onTimerEndNoStop(w, cfg, audioOk) ==
    LET w2 == IF w.isWorkSession
              THEN LET a == [w EXCEPT !.sessionsCompleted = @ + 1]
                       b == playNotification(a, "Work session completed!",
                                             cfg, audioOk)
                   IN  [b EXCEPT !.isWorkSession = FALSE, !.timeLeft = 0]
              ELSE LET b == playNotification(w,
                                "Break time over, ready to work!", cfg, audioOk)
                   IN  [b EXCEPT !.isWorkSession = TRUE, !.timeLeft = 0]
    IN  broadcastUpdate(updateStatusBar(w2), cfg)

\* An onTimerEnd() that leaves timeLeft where the tick() has brought it.
onTimerEndKeepsExcess(w, cfg, audioOk) ==
    LET w1 == stop(w, cfg)
        w2 == IF w1.isWorkSession
              THEN LET a == [w1 EXCEPT !.sessionsCompleted = @ + 1]
                       b == playNotification(a, "Work session completed!",
                                             cfg, audioOk)
                   IN  [b EXCEPT !.isWorkSession = FALSE]
              ELSE LET b == playNotification(w1,
                                "Break time over, ready to work!", cfg, audioOk)
                   IN  [b EXCEPT !.isWorkSession = TRUE]
    IN  broadcastUpdate(updateStatusBar(w2), cfg)

onTimerEnd(w, cfg, audioOk) ==
    LET w1 == stop(w, cfg)
        w2 == IF w1.isWorkSession
              THEN LET a == [w1 EXCEPT !.sessionsCompleted = @ + 1]
                       b == playNotification(a, "Work session completed!",
                                             cfg, audioOk)
                   IN  [b EXCEPT !.isWorkSession = FALSE, !.timeLeft = 0]
              ELSE LET b == playNotification(w1,
                                "Break time over, ready to work!", cfg, audioOk)
                   IN  [b EXCEPT !.isWorkSession = TRUE, !.timeLeft = 0]
    IN  broadcastUpdate(updateStatusBar(w2), cfg)

\* Math.floor((now - this.lastUpdateTime) / 1000)
Elapsed(w, t) == (t - w.lastUpdateTime) \div MsPerSecond

\* A tick() that holds the countdown at zero and leaves the phase as it is.
tickHoldsAtZero(w, cfg, t, audioOk) ==
    LET elapsed == Elapsed(w, t)
    IN  IF elapsed >= 1
        THEN LET left == IF w.timeLeft > elapsed
                         THEN w.timeLeft - elapsed ELSE 0
                 w1 == [w EXCEPT !.timeLeft = left, !.lastUpdateTime = t]
             IN  broadcastUpdate(updateStatusBar(w1), cfg)
        ELSE w

\* A tick() that ends the phase only once timeLeft is below zero.
tickEndsBelowZero(w, cfg, t, audioOk) ==
    LET elapsed == Elapsed(w, t)
    IN  IF elapsed >= 1
        THEN LET w1 == [w EXCEPT !.timeLeft = @ - elapsed,
                                 !.lastUpdateTime = t]
             IN  IF w1.timeLeft < 0
                 THEN onTimerEnd(w1, cfg, audioOk)
                 ELSE broadcastUpdate(updateStatusBar(w1), cfg)
        ELSE w

\* A tick() that moves the tick reference on every call.
tickMovesReference(w, cfg, t, audioOk) ==
    LET elapsed == Elapsed(w, t)
        w1 == [w EXCEPT !.timeLeft = @ - elapsed, !.lastUpdateTime = t]
    IN  IF elapsed >= 1
        THEN IF w1.timeLeft <= 0
             THEN onTimerEnd(w1, cfg, audioOk)
             ELSE broadcastUpdate(updateStatusBar(w1), cfg)
        ELSE w1

tick(w, cfg, t, audioOk) ==
    LET elapsed == Elapsed(w, t)
    IN  IF elapsed >= 1
        THEN LET w1 == [w EXCEPT !.timeLeft = @ - elapsed,
                                 !.lastUpdateTime = t]
             IN  IF w1.timeLeft <= 0
                 THEN onTimerEnd(w1, cfg, audioOk)
                 ELSE broadcastUpdate(updateStatusBar(w1), cfg)
        ELSE w

(* ------------------------------------------------------------------ *)
(* The click-driven timer (the module's functions and globals)          *)
(* ------------------------------------------------------------------ *)

WORK_TIME == 25 * 60
BREAK_TIME == 5 * 60

\* The two completion prompts: "rest" asks whether to take a break after
\* a work countdown, "work" whether to work on after a break.
PromptKinds == {"rest", "work"}

\* The answers of a prompt: its two buttons (written in Latin letters),
\* and the prompt closed without an answer.
Answers == {"Da", "Net", "dismissed"}

ClickSelf ==
    [timer |-> clickTimer, secondsLeft |-> secondsLeft,
     isWorking |-> isWorking, pomodoroCount |-> pomodoroCount,
     intervals |-> clickIntervals, prompts |-> prompts, out |-> << >>]

ClickCommit(l) ==
    /\ clickTimer' = l.timer
    /\ secondsLeft' = l.secondsLeft
    /\ isWorking' = l.isWorking
    /\ pomodoroCount' = l.pomodoroCount
    /\ clickIntervals' = l.intervals
    /\ prompts' = l.prompts
    /\ out' = l.out
    /\ UNCHANGED timerVars

\* vscode.window.showInformationMessage without buttons
ShowInfo(l, message) == Emit(l, [ev |-> "info", message |-> message])

\* updateStatusBar() of the click-driven timer: the text is made of the
\* phase's icon, secondsLeft and pomodoroCount.
updateStatusText(l) ==
    Emit(l, [ev |-> "statusText", isWorking |-> l.isWorking,
             secondsLeft |-> l.secondsLeft,
             pomodoroCount |-> l.pomodoroCount])

startTimer(l) ==
    LET l1 == updateStatusText(l)
        h == FreshHandle(l1.intervals)
    IN  [l1 EXCEPT !.timer = h, !.intervals = @ \cup {h}]

startWork(l) ==
    ShowInfo(startTimer([l EXCEPT !.isWorking = TRUE,
                                  !.secondsLeft = WORK_TIME]),
             "work started")

startBreak(l) ==
    ShowInfo(startTimer([l EXCEPT !.isWorking = FALSE,
                                  !.secondsLeft = BREAK_TIME]),
             "break started")

stopTimer(l) ==
    LET l1 == IF l.timer # NoTimer
              THEN [l EXCEPT !.intervals = ClearInterval(@, l.timer),
                             !.timer = NoTimer]
              ELSE l
    IN  ShowInfo(Emit(l1, [ev |-> "statusIdle"]), "stopped")

\* showInformationMessage with the buttons: the promise stays pending
\* until the user answers.
ShowPrompt(l, kind) == [l EXCEPT !.prompts[kind] = @ + 1]

timerFinished(l) ==
    LET l1 == stopTimer(l)
    IN  IF l1.isWorking
        THEN ShowPrompt([l1 EXCEPT !.pomodoroCount = @ + 1], "rest")
        ELSE ShowPrompt(l1, "work")

\* The callback startTimer() gives to setInterval.
intervalCallback(l) ==
    LET l1 == updateStatusText([l EXCEPT !.secondsLeft = @ - 1])
    IN  IF l1.secondsLeft <= 0 THEN timerFinished(l1) ELSE l1

\* The pomodoro.click command.
click(l) == IF l.timer # NoTimer THEN stopTimer(l) ELSE startWork(l)

\* The continuation of a prompt's promise.
answered(l, kind, answer) ==
    LET l1 == [l EXCEPT !.prompts[kind] = @ - 1]
    IN  IF answer = "Da"
        THEN IF kind = "rest" THEN startBreak(l1) ELSE startWork(l1)
        ELSE l1

\* deactivate() of the click-driven timer.
deactivateClick(l) ==
    [l EXCEPT !.intervals = IF l.timer # NoTimer
                            THEN ClearInterval(@, l.timer) ELSE @]

(* ------------------------------------------------------------------ *)
(* Initial state: the constructor, and a fresh configuration section    *)
(* ------------------------------------------------------------------ *)

Init ==
    /\ timeLeft = 0
    /\ isRunning = FALSE
    /\ isWorkSession = TRUE
    /\ sessionsCompleted = 0
    /\ timer = NoTimer
    /\ lastUpdateTime = 0
    /\ panel = "null"
    /\ intervals = {}
    /\ now = 0
    /\ config = [k \in ConfigKeys |-> Unset]
    /\ deactivated = FALSE
    /\ out = << >>
    /\ t0 = 0
    /\ R0 = 0
    /\ cycleAtExpiry = 0
    /\ clickTimer = NoTimer
    /\ secondsLeft = 0
    /\ isWorking = FALSE
    /\ pomodoroCount = 0
    /\ clickIntervals = {}
    /\ prompts = [kind \in PromptKinds |-> 0]

(* ------------------------------------------------------------------ *)
(* Actions                                                              *)
(* ------------------------------------------------------------------ *)

\* The model stops a user from beginning a work session past MaxSessions
\* and the host from holding more than MaxHandles intervals.
CanStart(w) ==
    /\ Cardinality(w.intervals) < MaxHandles
    /\ \/ w.isRunning
       \/ ~(w.isWorkSession /\ w.timeLeft = 0
            /\ w.sessionsCompleted >= MaxSessions)

\* t0 and R0 follow a start() that starts the countdown, and are cleared
\* once the countdown no longer runs. cycleAtExpiry is kept from the
\* expiry of a work session until the first handler that finds the break
\* running.
Started(w, w1) == w1.intervals # w.intervals /\ w1.isRunning

Record(w, w1) ==
    /\ t0' = IF Started(w, w1) THEN w1.lastUpdateTime
             ELSE IF w1.isRunning THEN t0 ELSE 0
    /\ R0' = IF Started(w, w1) THEN w1.timeLeft
             ELSE IF w1.isRunning THEN R0 ELSE 0
    /\ cycleAtExpiry' =
           IF w1.isWorkSession \/ (w.isRunning /\ ~w.isWorkSession) THEN 0
           ELSE IF w.isWorkSession
                THEN Get(config, "sessionsBeforeLongBreak",
                         DefaultSessionsBeforeLongBreak)
                ELSE cycleAtExpiry

\* The pomodoroTimer.toggleTimer command (also the status bar's click).
ToggleTimer ==
    /\ ~deactivated
    /\ isRunning \/ CanStart(Self)
    /\ LET w1 == toggleTimer(Self, config, now)
       IN  Commit(w1) /\ Record(Self, w1)
    /\ UNCHANGED <<now, config, deactivated>>

\* The pomodoroTimer.showPanel command.
showPanel(w, cfg) ==
    broadcastUpdate([w EXCEPT !.panel = "visible"], cfg)

ShowPanel ==
    /\ ~deactivated
    /\ Commit(showPanel(Self, config))
    /\ UNCHANGED <<now, config, deactivated, t0, R0, cycleAtExpiry>>

\* The user brings another editor tab to the front, or this one back.
PanelViewState ==
    /\ panel # "null"
    /\ panel' = IF panel = "visible" THEN "hidden" ELSE "visible"
    /\ out' = << >>
    /\ UNCHANGED <<timeLeft, isRunning, isWorkSession, sessionsCompleted,
                   timer, lastUpdateTime, intervals, now, config,
                   deactivated, t0, R0, cycleAtExpiry>>
    /\ UNCHANGED clickVars

\* The user closes the panel: onDidDispose.
PanelDispose ==
    /\ panel # "null"
    /\ panel' = "null"
    /\ out' = << >>
    /\ UNCHANGED <<timeLeft, isRunning, isWorkSession, sessionsCompleted,
                   timer, lastUpdateTime, intervals, now, config,
                   deactivated, t0, R0, cycleAtExpiry>>
    /\ UNCHANGED clickVars

\* handleWebviewMessage, for the commands that act on the timer.
handleWebviewMessage(w, command, cfg, t) ==
    CASE command = "start" -> start(w, cfg, t)
      [] command = "stop"  -> stop(w, cfg)
      [] command = "reset" -> reset(w, cfg)
      [] OTHER -> w

PanelMessage(command) ==
    /\ ~deactivated
    /\ panel # "null"
    /\ command = "start" => CanStart(Self)
    /\ LET w1 == handleWebviewMessage(Self, command, config, now)
       IN  Commit(w1) /\ Record(Self, w1)
    /\ UNCHANGED <<now, config, deactivated>>

\* A watcher that restarts the phase in progress with its new length.
configWatcherRestarts(w, cfg) ==
    broadcastUpdate(IF w.timeLeft > 0
                    THEN [w EXCEPT !.timeLeft = IntervalLength(w, cfg)]
                    ELSE w, cfg)

\* onDidChangeConfiguration (registerConfigWatcher): the section changed.
configWatcher(w, cfg) == broadcastUpdate(w, cfg)

\* A setting of the section is written: by the user in the settings
\* editor, or by updateSettings on the panel's updateSettings message.
UpdateConfig(key, value) ==
    /\ config[key] # <<value>>
    /\ config' = [config EXCEPT ![key] = <<value>>]
    /\ Commit(configWatcher(Self, config'))
    /\ UNCHANGED <<now, deactivated, t0, R0, cycleAtExpiry>>

ConfigChange(key, value) ==
    /\ ~deactivated
    /\ UpdateConfig(key, value)

PanelUpdateSettings(key, value) ==
    /\ ~deactivated
    /\ panel # "null"
    /\ UpdateConfig(key, value)

\* The interval's callback: () => this.tick().
Tick(h, audioOk) ==
    /\ h \in intervals
    /\ LET w1 == tick(Self, config, now, audioOk)
       IN  Commit(w1) /\ Record(Self, w1)
    /\ UNCHANGED <<now, config, deactivated>>

\* A deactivate() that leaves the interval to the host.
deactivateKeepsInterval(w) == w

\* deactivate(): clears the interval, and the host disposes the commands.
deactivate(w) ==
    [w EXCEPT !.intervals = IF w.timer # NoTimer
                            THEN ClearInterval(@, w.timer) ELSE @]

Deactivate ==
    /\ ~deactivated
    /\ deactivated' = TRUE
    /\ Commit(deactivate(Self))
    /\ UNCHANGED <<now, config, t0, R0, cycleAtExpiry>>

\* Wall-clock time passes: the next reading of the clock is d ms later.
ClockReadings ==
    {m * MsPerMinute + o * ClockQuantum : m \in 0..MaxMinutes,
                                          o \in 0..MaxOffsetSteps}

Advance(d) ==
    /\ now + d \in ClockReadings
    /\ now' = now + d
    /\ out' = << >>
    /\ UNCHANGED <<timeLeft, isRunning, isWorkSession, sessionsCompleted,
                   timer, lastUpdateTime, panel, intervals, config,
                   deactivated, t0, R0, cycleAtExpiry>>
    /\ UNCHANGED clickVars

\* The model stops the host from holding more than MaxHandles intervals
\* and a user from beginning a work countdown past MaxSessions.
CanStartTimer(l) == Cardinality(l.intervals) < MaxHandles

CanStartWork(l) == CanStartTimer(l) /\ l.pomodoroCount < MaxSessions

\* The user clicks the status bar item.
Click ==
    /\ ~deactivated
    /\ clickTimer = NoTimer => CanStartWork(ClickSelf)
    /\ ClickCommit(click(ClickSelf))
    /\ UNCHANGED deactivated

\* The host calls the callback of a live interval. The model stops
\* calling it MaxOverrun seconds past zero, and holds a countdown's end
\* back while MaxPrompts prompts wait for their answer.
IntervalCallback(h) ==
    /\ h \in clickIntervals
    /\ secondsLeft > -MaxOverrun
    /\ secondsLeft <= 1 => prompts["rest"] + prompts["work"] < MaxPrompts
    /\ ClickCommit(intervalCallback(ClickSelf))
    /\ UNCHANGED deactivated

\* The user answers a pending prompt, or closes it.
Answer(kind, answer) ==
    /\ ~deactivated
    /\ prompts[kind] > 0
    /\ answer = "Da" =>
           IF kind = "rest" THEN CanStartTimer(ClickSelf)
           ELSE CanStartWork(ClickSelf)
    /\ ClickCommit(answered(ClickSelf, kind, answer))
    /\ UNCHANGED deactivated

DeactivateClick ==
    /\ ~deactivated
    /\ deactivated' = TRUE
    /\ ClickCommit(deactivateClick(ClickSelf))

(* ------------------------------------------------------------------ *)
(* Specifications                                                       *)
(* ------------------------------------------------------------------ *)

\* The values a user gives a setting: a cycle of SliderMin..MaxCycle
\* sessions, and for a duration the shortest one, SliderMin minutes.
ValidValues(key) ==
    IF key = "sessionsBeforeLongBreak" THEN SliderMin..MaxCycle
    ELSE {SliderMin}

\* Values the configuration store accepts although no duration or count
\* can be meant by them.
InvalidValues == {0, -1}

\* The toggle command and the driver.
Commands ==
    \/ ToggleTimer
    \/ \E h \in intervals : \E audioOk \in BOOLEAN : Tick(h, audioOk)

\* The panel: shown, hidden, closed, and its messages to the timer.
PanelHandlers ==
    \/ ShowPanel
    \/ PanelViewState
    \/ PanelDispose
    \/ \E command \in {"start", "stop", "reset"} : PanelMessage(command)

\* The timer under a clock read every half second; the user sets the
\* work and break durations.
Next ==
    \/ Commands
    \/ PanelHandlers
    \/ \E key \in {"workDuration", "breakDuration"} :
           \E value \in ValidValues(key) :
               ConfigChange(key, value) \/ PanelUpdateSettings(key, value)
    \/ \E d \in {ClockQuantum, MsPerMinute} : Advance(d)

Spec == Init /\ [][Next]_vars

\* The toggle command, the driver and the panel's settings under a clock
\* read every whole minute; the user sets every setting, to valid values.
NextSettings ==
    \/ Commands
    \/ ShowPanel
    \/ \E key \in NumberKeys : \E value \in ValidValues(key) :
           ConfigChange(key, value) \/ PanelUpdateSettings(key, value)
    \/ \E key \in ToggleKeys : \E value \in BOOLEAN :
           ConfigChange(key, value) \/ PanelUpdateSettings(key, value)
    \/ Advance(MsPerMinute)

SpecSettings == Init /\ [][NextSettings]_vars

\* The toggle command and the driver, with the numeric settings also set
\* to zero and to negative numbers in the settings editor.
NextAnySettings ==
    \/ Commands
    \/ \E key \in NumberKeys : \E value \in ValidValues(key) \cup InvalidValues :
           ConfigChange(key, value)
    \/ Advance(MsPerMinute)

SpecAnySettings == Init /\ [][NextAnySettings]_vars

\* The class used as an object: a caller (a unit test of the timer)
\* invokes start(), stop(), reset() and tick() directly, in any order,
\* and moves the clock in between.
Call(method, audioOk) ==
    /\ method = "start" => CanStart(Self)
    /\ LET w1 == CASE method = "start" -> start(Self, config, now)
                   [] method = "stop"  -> stop(Self, config)
                   [] method = "reset" -> reset(Self, config)
                   [] method = "tick"  -> tick(Self, config, now, audioOk)
       IN  Commit(w1) /\ Record(Self, w1)
    /\ UNCHANGED <<now, config, deactivated>>

NextApi ==
    \/ \E method \in {"start", "stop", "reset", "tick"} :
           \E audioOk \in BOOLEAN : Call(method, audioOk)
    \/ \E d \in {ClockQuantum, MsPerMinute} : Advance(d)

SpecApi == Init /\ [][NextApi]_vars

\* The extension's whole life: Spec, and the host deactivating it.
NextLifecycle == Next \/ Deactivate

SpecLifecycle == Init /\ [][NextLifecycle]_vars

\* The click-driven timer: clicks on the status bar item, the intervals'
\* callbacks, the answers to the completion prompts, and deactivation.
NextClick ==
    \/ Click
    \/ \E h \in clickIntervals : IntervalCallback(h)
    \/ \E kind \in PromptKinds : \E answer \in Answers : Answer(kind, answer)
    \/ DeactivateClick

SpecClick == Init /\ [][NextClick]_vars

\* A countdown left to run: the user starts the timer and never stops or
\* resets it, the host keeps calling the interval's callback, and the
\* wall clock keeps advancing. A countdown is started only where the
\* clock's readings reach a minute past its end.
HasRoom ==
    (now \div MsPerMinute + 1) * MsPerMinute
        + IntervalLength(Self, config) * MsPerSecond
            <= MaxMinutes * MsPerMinute

StartAndLeave ==
    /\ ~isRunning
    /\ HasRoom
    /\ ToggleTimer

NextLive ==
    \/ StartAndLeave
    \/ \E h \in intervals : \E audioOk \in BOOLEAN : Tick(h, audioOk)
    \/ \E key \in {"workDuration", "breakDuration"} :
           \E value \in ValidValues(key) : ConfigChange(key, value)
    \/ \E d \in {ClockQuantum, MsPerMinute} : Advance(d)

SpecLive ==
    /\ Init
    /\ [][NextLive]_vars
    /\ WF_vars(\E h \in intervals : \E audioOk \in BOOLEAN : Tick(h, audioOk))
    /\ WF_vars(\E d \in {ClockQuantum, MsPerMinute} : Advance(d))

(* ------------------------------------------------------------------ *)
(* Steps and events the claims speak of                                 *)
(* ------------------------------------------------------------------ *)

\* A call of start(): the toggle command while stopped, or the panel's
\* start message.
StartStep == (~isRunning /\ ToggleTimer) \/ PanelMessage("start")

\* A call of stop(): the toggle command while running, or the panel's
\* stop message.
StopStep == (isRunning /\ ToggleTimer) \/ PanelMessage("stop")

\* The driver's callback runs tick().
TickStep == \E h \in intervals : \E audioOk \in BOOLEAN : Tick(h, audioOk)

\* start() on a stopped timer with nothing left begins a phase.
FreshStart == ~isRunning /\ timeLeft = 0 /\ StartStep

\* The tick about to run finds the countdown at or past its end.
Expiring ==
    /\ Elapsed(Self, now) >= 1
    /\ timeLeft - Elapsed(Self, now) <= 0

\* How many events of one kind the last handler put out.
Count(kind) == Cardinality({i \in 1..Len(out) : out[i].ev = kind})

(* ------------------------------------------------------------------ *)
(* C1                                                                   *)
(* ------------------------------------------------------------------ *)

\* C1: in every state reached by start, stop, reset, toggle, tick and the
\* panel's messages at most one interval is alive, one is alive exactly
\* when isRunning holds, and it is the one this.timer names; so a second
\* start() without a stop() in between leaves exactly one.
C1_OneDriver ==
    /\ Cardinality(intervals) <= 1
    /\ (intervals # {}) <=> isRunning
    /\ isRunning => intervals = {timer}
    /\ ~isRunning => timer = NoTimer

\* The countdown runs on one interval after a handler that rendered
\* nothing ran at the very reading of the clock it was started at, as the
\* panel's start message does when the timer already runs.
C1_Witness ==
    /\ isRunning
    /\ intervals = {timer}
    /\ panel = "visible"
    /\ now = t0
    /\ lastUpdateTime = t0
    /\ out = << >>

(* ------------------------------------------------------------------ *)
(* C2                                                                   *)
(* ------------------------------------------------------------------ *)

\* C2: start() with isRunning false and timeLeft 0 sets timeLeft to
\* workDuration*60 in the Work phase; in the Break phase to
\* longBreakDuration*60 when sessionsCompleted > 0 and sessionsCompleted
\* is a multiple of sessionsBeforeLongBreak, and to breakDuration*60
\* otherwise.
C2_IntervalChoice ==
    [][FreshStart =>
          timeLeft' =
              IF isWorkSession
              THEN Get(config, "workDuration", 25) * 60
              ELSE IF /\ sessionsCompleted > 0
                      /\ sessionsCompleted
                            % Get(config, "sessionsBeforeLongBreak", 4) = 0
                   THEN Get(config, "longBreakDuration", 15) * 60
                   ELSE Get(config, "breakDuration", 5) * 60]_vars

\* A break just started after the second of every two sessions: the long
\* one, of a length the short break does not have.
C2_Witness ==
    /\ isRunning
    /\ ~isWorkSession
    /\ sessionsCompleted = 2
    /\ config["sessionsBeforeLongBreak"] = <<2>>
    /\ now = t0
    /\ timeLeft = Get(config, "longBreakDuration", 15) * 60
    /\ timeLeft # Get(config, "breakDuration", 5) * 60

(* ------------------------------------------------------------------ *)
(* C3                                                                   *)
(* ------------------------------------------------------------------ *)

\* C3: while the timer runs from a start() at t0 with R0 seconds, after a
\* tick at time t that does not end the countdown timeLeft is
\* R0 - floor((t - t0) / 1000), however late the tick comes.
C3_TracksWallClock ==
    [][(TickStep /\ isRunning') =>
          timeLeft' = R0 - ((now - t0) \div MsPerSecond)]_vars

(* ------------------------------------------------------------------ *)
(* C4                                                                   *)
(* ------------------------------------------------------------------ *)

\* A caller invokes tick().
TickCall == \E audioOk \in BOOLEAN : Call("tick", audioOk)

\* C4: tick() with E whole seconds elapsed since the tick reference takes
\* exactly E off timeLeft when isRunning holds, and changes nothing when
\* it does not.
C4_TickDecrement ==
    [][TickCall =>
          IF isRunning
          THEN timeLeft' = timeLeft - Elapsed(Self, now)
          ELSE UNCHANGED <<timeLeft, isRunning, isWorkSession,
                           sessionsCompleted, timer, lastUpdateTime,
                           intervals>>]_vars

(* ------------------------------------------------------------------ *)
(* C5                                                                   *)
(* ------------------------------------------------------------------ *)

\* C5: a tick that brings timeLeft to 0 or below adds one to
\* sessionsCompleted and enters Break when the phase was Work, leaves
\* the count and enters Work when it was Break; either way timeLeft is
\* 0, isRunning is false and the interval is cleared; and the next phase
\* counts only from a start(): nothing else sets isRunning or gives a
\* stopped timer at 0 any time to count.
C5_Expiry ==
    /\ [][(TickStep /\ Expiring) =>
             /\ sessionsCompleted' =
                    IF isWorkSession THEN sessionsCompleted + 1
                    ELSE sessionsCompleted
             /\ isWorkSession' = ~isWorkSession
             /\ timeLeft' = 0
             /\ ~isRunning'
             /\ timer' = NoTimer
             /\ intervals' = {}]_vars
    /\ [][(~isRunning /\ (isRunning' \/ timeLeft' # timeLeft)) =>
             StartStep \/ PanelMessage("reset")]_vars

\* A work session has just run out: the first one, with the message
\* shown and the break not yet counting.
C5_Witness ==
    /\ ~isRunning
    /\ ~isWorkSession
    /\ timeLeft = 0
    /\ sessionsCompleted = 1
    /\ intervals = {}
    /\ Count("info") = 1

(* ------------------------------------------------------------------ *)
(* C6                                                                   *)
(* ------------------------------------------------------------------ *)

\* C6: reset() from any state leaves timeLeft 0, the Work phase,
\* sessionsCompleted 0 and isRunning false, with no interval alive.
C6_Reset ==
    [][PanelMessage("reset") =>
          /\ timeLeft' = 0
          /\ isWorkSession'
          /\ sessionsCompleted' = 0
          /\ ~isRunning'
          /\ timer' = NoTimer
          /\ intervals' = {}]_vars

\* reset() has just run on a break that was counting: its first render
\* (the one stop() makes) still shows the break, part of its time and
\* the session count.
C6_Witness ==
    /\ Len(out) >= 2
    /\ out[1].ev = "statusBar"
    /\ ~out[1].isWorkSession
    /\ out[1].timeLeft > 0
    /\ out[1].sessionsCompleted > 0
    /\ now > lastUpdateTime
    /\ timeLeft = 0 /\ isWorkSession /\ sessionsCompleted = 0
    /\ ~isRunning /\ intervals = {}

(* ------------------------------------------------------------------ *)
(* C7                                                                   *)
(* ------------------------------------------------------------------ *)

\* C7: stop() clears isRunning and the interval and leaves timeLeft, the
\* phase and sessionsCompleted as they were; a start() that follows with
\* timeLeft > 0 counts on from that timeLeft, whatever the settings say.
C7_Pause ==
    /\ [][StopStep =>
             /\ ~isRunning'
             /\ timer' = NoTimer
             /\ intervals' = {}
             /\ UNCHANGED <<timeLeft, isWorkSession, sessionsCompleted>>]_vars
    /\ [][(StartStep /\ ~isRunning /\ timeLeft > 0) =>
             /\ isRunning'
             /\ UNCHANGED <<timeLeft, isWorkSession, sessionsCompleted>>]_vars

\* A countdown started again part of the way through a minute, with a
\* time left that no setting gives.
C7_Witness ==
    /\ isRunning
    /\ now = t0
    /\ R0 = timeLeft
    /\ timeLeft % SecondsPerMinute # 0
    /\ timeLeft # IntervalLength(Self, config)

(* ------------------------------------------------------------------ *)
(* C8                                                                   *)
(* ------------------------------------------------------------------ *)

\* The value the documentation promises for a setting: the one set when
\* it is a positive number, the default when it is absent or not.
Documented(key, defaultValue) ==
    IF config[key] # Unset /\ config[key][1] > 0
    THEN config[key][1] ELSE defaultValue

\* C8: an absent or invalid setting (zero, negative) is replaced by its
\* documented default when start() computes the interval, so the interval
\* started has the documented length and is never non-positive.
C8_DefaultsSubstituted ==
    [][FreshStart =>
          /\ timeLeft' > 0
          /\ timeLeft' =
                 IF isWorkSession
                 THEN Documented("workDuration", 25) * 60
                 ELSE IF /\ sessionsCompleted > 0
                         /\ sessionsCompleted
                               % Documented("sessionsBeforeLongBreak", 4) = 0
                      THEN Documented("longBreakDuration", 15) * 60
                      ELSE Documented("breakDuration", 5) * 60]_vars

(* ------------------------------------------------------------------ *)
(* C9                                                                   *)
(* ------------------------------------------------------------------ *)

\* C9: a change of any setting while timeLeft > 0, running or paused,
\* leaves timeLeft, isRunning, the phase and sessionsCompleted as they
\* were; and no step gives a countdown with time left a new length: the
\* settings are read only by the start() that begins from timeLeft = 0.
C9_LiveSettings ==
    /\ [][(config' # config /\ timeLeft > 0) =>
             UNCHANGED <<timeLeft, isRunning, isWorkSession,
                         sessionsCompleted, timer, intervals,
                         lastUpdateTime>>]_vars
    /\ [][(timeLeft' > timeLeft) => FreshStart]_vars

\* A work session counts down from the default 25 minutes although the
\* work duration has since been set to 1 minute.
C9_Witness ==
    /\ isRunning
    /\ isWorkSession
    /\ R0 = DefaultWorkDuration * SecondsPerMinute
    /\ timeLeft = R0
    /\ config["workDuration"] = <<1>>

(* ------------------------------------------------------------------ *)
(* C10                                                                  *)
(* ------------------------------------------------------------------ *)

\* C10: on every expiry the message is shown once if notificationEnabled
\* holds then and not at all otherwise; the chime is attempted (played,
\* or tried and logged as unavailable) if soundEnabled holds and not
\* otherwise; and in all four cases, also when the sound cannot be
\* produced, the phase flips, timeLeft is 0 and isRunning is false.
C10_Notification ==
    [][(TickStep /\ Expiring) =>
          /\ Count("info")' =
                 IF Get(config, "notificationEnabled", TRUE) THEN 1 ELSE 0
          /\ Count("beep")' + Count("log")' =
                 IF Get(config, "soundEnabled", TRUE) THEN 1 ELSE 0
          /\ isWorkSession' = ~isWorkSession
          /\ timeLeft' = 0
          /\ ~isRunning']_vars

\* An expiry with the message switched off and the sound switched on but
\* unavailable: nothing shown, the failure logged, the phase flipped.
C10_Witness ==
    /\ Count("log") = 1
    /\ Count("info") = 0
    /\ Count("beep") = 0
    /\ config["notificationEnabled"] = <<FALSE>>
    /\ ~isWorkSession
    /\ timeLeft = 0
    /\ ~isRunning

(* ------------------------------------------------------------------ *)
(* C11                                                                  *)
(* ------------------------------------------------------------------ *)

\* C11: a duplicate call is a no-op: start() while isRunning holds
\* changes neither timeLeft, the phase, sessionsCompleted, the tick
\* reference nor the interval handle; stop() while it does not hold
\* changes none of timeLeft, the phase, sessionsCompleted or isRunning.
C11_DuplicateCalls ==
    /\ [][(isRunning /\ PanelMessage("start")) =>
             UNCHANGED <<timeLeft, isRunning, isWorkSession,
                         sessionsCompleted, lastUpdateTime, timer,
                         intervals>>]_vars
    /\ [][(~isRunning /\ PanelMessage("stop")) =>
             UNCHANGED <<timeLeft, isRunning, isWorkSession,
                         sessionsCompleted, timer, intervals>>]_vars

\* stop() has just run on a timer that was never started: two renders,
\* of the stopped timer at 0 in its first Work phase, where a reset()
\* would have left four.
C11_Witness ==
    /\ ~isRunning
    /\ timeLeft = 0
    /\ isWorkSession
    /\ sessionsCompleted = 0
    /\ panel = "visible"
    /\ Len(out) = 2
    /\ out[1].ev = "statusBar"
    /\ out[2].ev = "update"
    /\ timer = NoTimer
    /\ intervals = {}

(* ------------------------------------------------------------------ *)
(* C12                                                                  *)
(* ------------------------------------------------------------------ *)

\* C12, for the PomodoroTimer object: once deactivate() has been called,
\* in whatever state, no interval is left to call tick(), and no step
\* changes the timer's state.
C12_NoDriverAfterDeactivate ==
    /\ [](deactivated => intervals = {})
    /\ [][deactivated =>
             /\ ~TickStep
             /\ UNCHANGED <<timeLeft, isRunning, isWorkSession,
                            sessionsCompleted, lastUpdateTime, timer,
                            intervals>>]_vars

\* Deactivated while the countdown ran, and a second or more of wall-clock
\* time has since passed without a tick().
C12_Witness ==
    /\ deactivated
    /\ isRunning
    /\ timer # NoTimer
    /\ timeLeft = R0
    /\ now >= lastUpdateTime + MsPerSecond

\* C12, for the click-driven timer: once deactivate() has been called, in
\* whatever state, no interval is left to call the countdown's callback,
\* and no step changes the timer's state.
C12_NoCallbackAfterDeactivate ==
    /\ [](deactivated => clickIntervals = {})
    /\ [][deactivated =>
             UNCHANGED <<clickTimer, secondsLeft, isWorking,
                         pomodoroCount>>]_vars

(* ------------------------------------------------------------------ *)
(* C13                                                                  *)
(* ------------------------------------------------------------------ *)

\* The number a text of decimal digits denotes.
RECURSIVE FromDecimal(_)
FromDecimal(text) ==
    IF text = << >> THEN 0
    ELSE FromDecimal(SubSeq(text, 1, Len(text) - 1)) * Len(DigitChars)
             + (CHOOSE d \in 0..9 : DigitChars[d + 1] = text[Len(text)])

IsDecimal(text) ==
    /\ text # << >>
    /\ \A i \in 1..Len(text) : \E d \in 1..Len(DigitChars) : text[i] = DigitChars[d]

\* The least field of two digits or more: no zero in front of a number
\* that has two digits without it.
PaddedToTwo(text) == Len(text) >= 2 /\ (Len(text) > 2 => text[1] # "0")

\* The label reads: icon, phase name, MM, a colon, SS, run indicator.
LabelShows(e) ==
    LET text == e.text
        colon == CHOOSE i \in 1..Len(text) : text[i] = ":"
        MM == SubSeq(text, 5, colon - 1)
        SS == SubSeq(text, colon + 1, Len(text) - 2)
    IN  /\ \E i \in 1..Len(text) : text[i] = ":"
        /\ SubSeq(text, 1, 4) =
               IF e.isWorkSession THEN <<"tomato", " ", "Work", " ">>
               ELSE <<"hot beverage", " ", "Break", " ">>
        /\ SubSeq(text, Len(text) - 1, Len(text)) =
               <<" ", IF e.isRunning THEN "black circle" ELSE "white circle">>
        /\ IsDecimal(MM) /\ PaddedToTwo(MM)
        /\ IsDecimal(SS) /\ Len(SS) = 2
        /\ FromDecimal(MM) = e.timeLeft \div SecondsPerMinute
        /\ FromDecimal(SS) = e.timeLeft % SecondsPerMinute

\* C13: every label rendered for a timeLeft R >= 0 shows the phase's icon
\* and name, then R div 60 and R mod 60 as MM:SS, each written with two
\* digits at least, then the indicator of isRunning.
C13_Label ==
    \A i \in 1..Len(out) :
        (out[i].ev = "statusBar" /\ out[i].timeLeft >= 0) => LabelShows(out[i])

\* A running work countdown at one minute is rendered: both fields of the
\* time need their zero in front.
C13_Witness ==
    \E i \in 1..Len(out) :
        /\ out[i].ev = "statusBar"
        /\ out[i].timeLeft = SecondsPerMinute
        /\ out[i].text = <<"tomato", " ", "Work", " ", "0", "1", ":",
                           "0", "0", " ", "black circle">>

(* ------------------------------------------------------------------ *)
(* C14                                                                  *)
(* ------------------------------------------------------------------ *)

\* C14: a tick() that finds elapsed >= 1 moves lastUpdateTime forward by
\* elapsed * 1000 ms exactly, and not to the current time, so that the
\* part of a second left over counts towards the next tick().
C14_ReferenceAdvance ==
    [][(TickStep /\ Elapsed(Self, now) >= 1) =>
           lastUpdateTime' = lastUpdateTime + Elapsed(Self, now) * MsPerSecond]_vars

(* ------------------------------------------------------------------ *)
(* C16                                                                  *)
(* ------------------------------------------------------------------ *)

\* C16: between operations, with durations of whole minutes, one or more,
\* timeLeft is an integer >= 0, sessionsCompleted is an integer >= 0, and
\* a running timer has timeLeft > 0.
C16_StateInvariant ==
    /\ timeLeft \in Nat
    /\ sessionsCompleted \in Nat
    /\ isRunning => timeLeft > 0

\* A tick() has brought a work countdown to zero exactly, and the timer
\* has stopped with one session more.
C16_Witness ==
    /\ ~isRunning
    /\ timeLeft = 0
    /\ sessionsCompleted = 1
    /\ lastUpdateTime = now
    /\ Len(out) >= 2
    /\ out[1].ev = "statusBar"
    /\ out[1].timeLeft = 0
    /\ out[1].isWorkSession
    /\ out[1].sessionsCompleted = 0

(* ------------------------------------------------------------------ *)
(* C17                                                                  *)
(* ------------------------------------------------------------------ *)

\* A start() from timeLeft = 0 sets timeLeft from the configuration.
SetFromConfiguration ==
    FreshStart /\ timeLeft' = IntervalLength(Self, config)

\* C17, as stated: a step that changes timeLeft is taken while isRunning
\* holds and decreases it, or begins a phase and sets it from the
\* configuration; nothing else changes timeLeft while the timer is stopped.
C17_OnlyWhileRunning ==
    [][timeLeft' # timeLeft =>
           \/ isRunning /\ timeLeft' < timeLeft
           \/ SetFromConfiguration]_vars

\* C17, amended: a step that changes timeLeft is a tick() of the running
\* timer, which decreases it; a start() from timeLeft = 0, which sets it
\* from the configuration; or a reset(), running or not, which sets it
\* to 0.
C17_ChangesOfTimeLeft ==
    [][timeLeft' # timeLeft =>
           \/ isRunning /\ TickStep /\ timeLeft' < timeLeft
           \/ SetFromConfiguration
           \/ PanelMessage("reset") /\ timeLeft' = 0]_vars

\* reset() has just zeroed a work countdown that had ticks behind it.
C17_Witness ==
    /\ Len(out) = 4
    /\ out[1].ev = "statusBar"
    /\ out[1].isWorkSession
    /\ out[1].timeLeft > 0
    /\ out[1].timeLeft % SecondsPerMinute # 0
    /\ out[3].ev = "statusBar"
    /\ out[3].timeLeft = 0
    /\ timeLeft = 0
    /\ ~isRunning

(* ------------------------------------------------------------------ *)
(* C18                                                                  *)
(* ------------------------------------------------------------------ *)

\* C18: a tick() less than one whole second after the tick reference
\* leaves timeLeft, the reference, isRunning, the phase and
\* sessionsCompleted as they are, and renders nothing: the time waits at
\* the reference for the tick() that completes the second.
C18_SubSecondTick ==
    [][(TickStep /\ Elapsed(Self, now) < 1) =>
           /\ UNCHANGED <<timeLeft, lastUpdateTime, isRunning,
                          isWorkSession, sessionsCompleted, timer,
                          intervals>>
           /\ out' = << >>]_vars

\* The countdown has been decremented, and half a second has passed since
\* for the next tick() to find.
C18_Witness ==
    /\ isRunning
    /\ timer \in intervals
    /\ lastUpdateTime > t0
    /\ timeLeft < R0
    /\ now = lastUpdateTime + ClockQuantum
    /\ out = << >>

(* ------------------------------------------------------------------ *)
(* C19                                                                  *)
(* ------------------------------------------------------------------ *)

\* The sessionsBeforeLongBreak in force now.
CycleNow ==
    Get(config, "sessionsBeforeLongBreak", DefaultSessionsBeforeLongBreak)

\* C19: the start() of a break decides between the long and the short
\* break with the sessionsBeforeLongBreak in force at that start(),
\* whatever it was when the work session expired.
C19_CycleAtBreakStart ==
    [][(FreshStart /\ ~isWorkSession) =>
           timeLeft' =
               IF sessionsCompleted > 0 /\ sessionsCompleted % CycleNow = 0
               THEN Get(config, "longBreakDuration",
                        DefaultLongBreakDuration) * SecondsPerMinute
               ELSE Get(config, "breakDuration",
                        DefaultBreakDuration) * SecondsPerMinute]_vars

\* A break has just started as a long one under the cycle length set
\* after the work session expired; the length in force at the expiry
\* would have made it a short one.
C19_Witness ==
    /\ isRunning
    /\ ~isWorkSession
    /\ now = t0
    /\ cycleAtExpiry # 0
    /\ cycleAtExpiry # CycleNow
    /\ sessionsCompleted % CycleNow = 0
    /\ sessionsCompleted % cycleAtExpiry # 0
    /\ timeLeft = Get(config, "longBreakDuration",
                      DefaultLongBreakDuration) * SecondsPerMinute
    /\ timeLeft # Get(config, "breakDuration",
                      DefaultBreakDuration) * SecondsPerMinute

(* ------------------------------------------------------------------ *)
(* C15                                                                  *)
(* ------------------------------------------------------------------ *)

\* C15: the click-driven timer has at most one interval alive in every
\* reachable state, however clicks, interval callbacks and the answers to
\* the completion prompts interleave.
C15_OneClickInterval == Cardinality(clickIntervals) <= 1

(* ------------------------------------------------------------------ *)
(* C20                                                                  *)
(* ------------------------------------------------------------------ *)

\* C20: a running timer that is neither stopped, reset nor deactivated,
\* whose interval's callbacks keep being delivered while the wall clock
\* advances, comes to the end of its countdown: timeLeft is zero, the
\* phase is the other one, and the timer no longer runs.
C20_CountdownEnds ==
    /\ (isRunning /\ isWorkSession)
           ~> (~isRunning /\ timeLeft = 0 /\ ~isWorkSession)
    /\ (isRunning /\ ~isWorkSession)
           ~> (~isRunning /\ timeLeft = 0 /\ isWorkSession)

\* A work session and the break after it have both run out.
C20_Witness ==
    /\ ~isRunning
    /\ timeLeft = 0
    /\ isWorkSession
    /\ sessionsCompleted = 1
    /\ intervals = {}
    /\ now = lastUpdateTime
    /\ now > 0

(* ------------------------------------------------------------------ *)
(* C21                                                                  *)
(* ------------------------------------------------------------------ *)

\* The events of the last handler that show the timer's state: the
\* status bar's renders and the panel's update messages.
Shown == {i \in 1..Len(out) : out[i].ev \in {"statusBar", "update"}}

\* C21: every state rendered to the status bar or posted to the panel has
\* timeLeft >= 0 and is a state the timer holds between operations (a
\* running timer has timeLeft > 0); and the tick() that ends a phase
\* shows no state with the phase it has just left.
C21_ShownStates ==
    /\ [](\A i \in Shown :
             /\ out[i].timeLeft >= 0
             /\ out[i].isRunning => out[i].timeLeft > 0)
    /\ [][(TickStep /\ Expiring) =>
             \A i \in {j \in 1..Len(out') : out'[j].ev \in {"statusBar", "update"}} :
                 out'[i].isWorkSession = isWorkSession']_vars

\* The state C21 excludes and a late tick() produces: the status bar has
\* been given a time below zero.
C21_NegativeShown ==
    \E i \in Shown : out[i].timeLeft < 0

(* ------------------------------------------------------------------ *)
(* C22                                                                  *)
(* ------------------------------------------------------------------ *)

\* The tick about to run is late: more seconds have passed than are left.
Late ==
    /\ Elapsed(Self, now) >= 1
    /\ Elapsed(Self, now) > timeLeft

\* The length the settings give the phase a stopped timer at 0 is in.
ConfiguredLength ==
    IF isWorkSession
    THEN Get(config, "workDuration", DefaultWorkDuration) * SecondsPerMinute
    ELSE IF sessionsCompleted > 0 /\ sessionsCompleted % CycleNow = 0
         THEN Get(config, "longBreakDuration",
                  DefaultLongBreakDuration) * SecondsPerMinute
         ELSE Get(config, "breakDuration",
                  DefaultBreakDuration) * SecondsPerMinute

\* C22: a late tick() makes one phase transition: the phase is the other
\* one, sessionsCompleted has grown by one after Work and not at all
\* after Break, one message is shown, and timeLeft is 0 with the timer
\* stopped; the seconds in excess are gone, for the start() that follows
\* gives the next phase its whole configured length, counted from then.
C22_LateTick ==
    /\ [][(TickStep /\ Late) =>
             /\ isWorkSession' = ~isWorkSession
             /\ sessionsCompleted' =
                    IF isWorkSession THEN sessionsCompleted + 1
                    ELSE sessionsCompleted
             /\ Cardinality({i \in 1..Len(out') : out'[i].ev = "info"}) = 1
             /\ timeLeft' = 0
             /\ ~isRunning']_vars
    /\ [][FreshStart =>
             /\ timeLeft' = ConfiguredLength
             /\ lastUpdateTime' = now]_vars

\* A tick() has come a minute late to a work session: the time it
\* rendered first was below zero, and the timer rests at 0 in Break with
\* one session counted and one message shown.
C22_Witness ==
    /\ ~isRunning
    /\ ~isWorkSession
    /\ timeLeft = 0
    /\ sessionsCompleted = 1
    /\ Count("info") = 1
    /\ Len(out) >= 1
    /\ out[1].ev = "statusBar"
    /\ out[1].timeLeft = -SecondsPerMinute

(* ------------------------------------------------------------------ *)
(* C23                                                                  *)
(* ------------------------------------------------------------------ *)

\* C23: in every reachable state the Break phase has sessionsCompleted
\* >= 1: only the end of a work session, which counts it, enters Break,
\* and reset() returns to Work as it clears the count.
C23_BreakAfterWork == ~isWorkSession => sessionsCompleted >= 1

\* The first break has just been started, with one session counted.
C23_Witness ==
    /\ isRunning
    /\ ~isWorkSession
    /\ sessionsCompleted = 1
    /\ now = t0
    /\ timeLeft = R0
    /\ timeLeft > 0

====
